---- MODULE Spec2Model ----
(***************************************************************************)
(* pyABCI: the connection protocol engine (src/abci/protocol.py) and the   *)
(* server lifecycle (src/abci/server.py) on one asyncio event loop.        *)
(*                                                                         *)
(* The event loop is the FIFO `ready` of scheduled callbacks (call_soon):  *)
(* task steps, task done-callbacks, connection_lost calls and steps of the *)
(* stop()/start() coroutines.  Socket events, timers and the completion of *)
(* whatever a handler or the resolver awaits are the environment.          *)
(*                                                                         *)
(* Frames are modelled as bytes (varint header, oneof tag, body), and the  *)
(* application state kept by TxKeeper and CommonApp (src/abci/ext) is a    *)
(* state machine of its own, SpecApp.                                      *)
(***************************************************************************)
EXTENDS Integers, Sequences, FiniteSets, TLC

\* ------------------------------------------------------------------ bounds
\* connections the listener accepts
MaxConns == 2
\* inputs of the environment: frames received, sockets closed by the peer, signals
MaxEvents == 3
\* calls of Server.start
MaxStarts == 2
\* block heights an end_block or an application state carries: 0..MaxHeight
MaxHeight == 2
\* distinct transactions
MaxTxs == 2
MaxGets == 3
MaxRequests == 4

Conns == 1..MaxConns

\* the calls of Server.start, in call order
Calls == 1..MaxStarts

\* ------------------------------------------------------- message registry
InfoNames == {"info", "set_option", "query"}
MempoolNames == {"check_tx"}
ConsensusNames == {"init_chain", "begin_block", "deliver_tx", "end_block", "commit"}
StateSyncNames == {"list_snapshots", "offer_snapshot", "load_snapshot_chunk", "apply_snapshot_chunk"}
EngineNames == {"echo", "flush"}
\* "" is what which_one_of returns for a Request with no variant set
RequestNames == InfoNames \cup MempoolNames \cup ConsensusNames \cup StateSyncNames \cup EngineNames \cup {""}

\* the request names the environment sends in the main specification: the
\* two engine-answered names, a request of a response-ordered kind and one of
\* the request-ordered kind
InputNames == {"echo", "flush", "info", "deliver_tx"}

\* field numbers of the Request oneof (tendermint/abci/types.proto, v0.34)
FieldOf == [echo |-> 1, flush |-> 2, info |-> 3, set_option |-> 4, init_chain |-> 5,
            query |-> 6, begin_block |-> 7, check_tx |-> 8, deliver_tx |-> 9,
            end_block |-> 10, commit |-> 11, list_snapshots |-> 12,
            offer_snapshot |-> 13, load_snapshot_chunk |-> 14,
            apply_snapshot_chunk |-> 15]

\* the key byte of a length-delimited field: (field << 3) | 2
Tag(name) == FieldOf[name] * 8 + 2

\* bytes(Request(name=message)); a Request with no variant set is empty.
\* The body stands for the serialized inner message (shorter than 128 bytes)
Payload(name, body) ==
    IF name = "" THEN <<>> ELSE <<Tag(name), Len(body)>> \o body

\* betterproto.which_one_of(Request().parse(data), "value")
which_one_of(data) ==
    IF data = <<>> THEN [name |-> "", message |-> <<>>]
    ELSE [name |-> CHOOSE n \in DOMAIN FieldOf : Tag(n) = data[1],
          message |-> SubSeq(data, 3, Len(data))]

\* betterproto.encode_varint
RECURSIVE encode_varint(_)
encode_varint(value) ==
    IF value < 128 THEN <<value>>
    ELSE <<128 + (value % 128)>> \o encode_varint(value \div 128)

\* betterproto.decode_varint(buffer, pos): reading past the end of the buffer
\* raises, as do more than 64 bits
RECURSIVE varint_from(_, _, _, _)
varint_from(buf, pos, shift, result) ==
    IF pos >= Len(buf) THEN [ok |-> FALSE, result |-> 0, pos |-> pos]
    ELSE LET b == buf[pos + 1]
             res == result + (b % 128) * 2^shift
         IN  IF b < 128 THEN [ok |-> TRUE, result |-> res, pos |-> pos + 1]
             ELSE IF shift + 7 >= 64 THEN [ok |-> FALSE, result |-> 0, pos |-> pos + 1]
             ELSE varint_from(buf, pos + 1, shift + 7, res)

decode_varint(buf, pos) == varint_from(buf, pos, 0, 0)

VARIABLES
    app,          \* "base": monolithic BaseApplication; "ext": extended Application
    lim,          \* what the environment does: [names, bodies, low, outs, conns, events, starts]
    srv,          \* Server._srv: "none" | "open" | "closed" (listener closed, still set)
    srvBy,        \* the start call that created the listener _srv refers to (0: none)
    stray,        \* start calls whose listener is open and no longer what _srv refers to
    stopping,     \* Server._stopping
    startPc,      \* per start call: "idle" | "refused" | "binding" | "failed" | "serving" | "returned"
    stopPc,       \* the Server.stop coroutine past its guard: "idle" | "sleeping" | "closed"
    expired,      \* the deadline of that stop coroutine has passed
    connections,  \* Server.connections
    made,         \* connections for which connection_made has been called
    nsig,         \* SIGINT/SIGTERM deliveries so far
    nstart,       \* calls of Server.start so far
    kind,         \* Protocol.handler_type per connection ("None" when unset)
    proc,         \* discipline of Protocol.message_processor: "Response" | "Request"
    handler,      \* Protocol.handler per connection: "None" or the kind it was resolved for
    calls,        \* per connection, the kinds get_connection_handler was called with
    current,      \* current_task of the connection's RequestOrderedTaskProcessor (0: None)
    reqTasks,     \* RequestOrderedTaskProcessor.tasks (class attribute: one deque)
    respTasks,    \* ResponseOrderedTaskProcessor.tasks (class attribute: one deque)
    reqs,         \* every decoded request, in decode order, with its work unit's state
    buffer,       \* Protocol.buffer per connection
    sent,         \* every frame a peer has sent, in sending order: [conn, hdr, data]
    wire,         \* per connection: bytes sent by the peer and not yet received
    ready,        \* the event loop's queue of scheduled callbacks
    closed,       \* per connection: "no" | "abort" | "close" | "peer" | "fatal"
    written,      \* per connection: the frames passed to transport.write
    app_state,    \* CommonApp.__state: <<>> (None) or <<[block_height, app_hash]>>
    block_height, \* TxKeeper.block_height: <<>> (never assigned) or <<height>>
    tx_hashes,    \* TxKeeper.block_hasher._tx_hashes
    commits,      \* per height: <<app_hash>> of the first commit that returned, or <<>>
    lastCall,     \* the latest call into the application state and how it ended
    keeper,       \* tend.abci.ext TxKeeper: [state, shared, bh] (its __state, whether that
                  \* is the very object the application's state is, its __bh)
    ext_app_state, \* tend.abci.extend ExtApplication.__app_state: <<>> (None) or <<AppState>>
    awaited,      \* the factory coroutine objects of ExtApplication awaited so far
    gets,         \* the calls of ExtApplication.get_connection_handler so far: [kind, res]
    response_queue, \* tend.abci Protocol.response_queue of one connection
    lhandler,     \* tend.abci Protocol.handler of that connection
    lreqs,        \* every request that connection has decoded, with its work's state
    lwritten      \* the requests whose response was passed to transport.write, in order

vars == <<app, lim, srv, srvBy, stray, stopping, startPc, stopPc, expired, connections, made, nsig, nstart,
          kind, proc, handler, calls, current, reqTasks, respTasks, reqs, buffer,
          sent, wire, ready, closed, written,
          app_state, block_height, tx_hashes, commits, lastCall,
          keeper, ext_app_state, awaited, gets,
          response_queue, lhandler, lreqs, lwritten>>

\* the state of CommonApp and TxKeeper
appvars == <<app_state, block_height, tx_hashes, commits, lastCall>>

\* the state of the earlier package tend.abci: its applications and one
\* connection of its engine
legacyvars == <<keeper, ext_app_state, awaited, gets,
                response_queue, lhandler, lreqs, lwritten>>

\* the state of Server and its connections
srvvars == <<srv, srvBy, stray, stopping, startPc, stopPc, expired, connections,
             made, nsig, nstart, kind, proc, handler, calls, current, reqTasks,
             respTasks, reqs, buffer, sent, wire, ready, closed, written>>

\* the mutable state as one record, threaded through the synchronous calls
St == [srv |-> srv, srvBy |-> srvBy, stray |-> stray, stopping |-> stopping,
       startPc |-> startPc, stopPc |-> stopPc, expired |-> expired,
       connections |-> connections, made |-> made, nsig |-> nsig, nstart |-> nstart,
       kind |-> kind, proc |-> proc, handler |-> handler, calls |-> calls,
       current |-> current, reqTasks |-> reqTasks, respTasks |-> respTasks,
       reqs |-> reqs, buffer |-> buffer, sent |-> sent, wire |-> wire,
       ready |-> ready, closed |-> closed, written |-> written]

\* the step ends in state M (M is evaluated once)
Becomes(M) ==
    \E m \in {M} :
        /\ srv' = m.srv /\ srvBy' = m.srvBy /\ stray' = m.stray
        /\ stopping' = m.stopping /\ startPc' = m.startPc
        /\ stopPc' = m.stopPc /\ expired' = m.expired
        /\ connections' = m.connections /\ made' = m.made
        /\ nsig' = m.nsig /\ nstart' = m.nstart /\ kind' = m.kind
        /\ proc' = m.proc /\ handler' = m.handler
        /\ calls' = m.calls /\ current' = m.current /\ reqTasks' = m.reqTasks
        /\ respTasks' = m.respTasks /\ reqs' = m.reqs /\ ready' = m.ready
        /\ buffer' = m.buffer /\ sent' = m.sent /\ wire' = m.wire
        /\ closed' = m.closed /\ written' = m.written
        /\ UNCHANGED <<app, lim>>
        /\ UNCHANGED appvars
        /\ UNCHANGED legacyvars

call_soon(M, op, id) == [M EXCEPT !.ready = Append(@, <<op, id>>)]

\* ------------------------------------------------------------- transport
\* the message a finished task returns: ResponseEcho(message.message) from the
\* engine, otherwise what the handler built, of which the code is kept
task_result(M, r) ==
    [msg |-> IF M.reqs[r].name = "echo" /\ ~M.reqs[r].inv THEN M.reqs[r].data ELSE <<>>,
     code |-> M.reqs[r].code]

\* asyncio selector transport: write() after close()/abort() is dropped
transport_write(M, c, r, tag) ==
    IF M.closed[c] # "no" THEN M
    ELSE [M EXCEPT !.written[c] = Append(@, [req |-> r, tag |-> tag,
                                            msg |-> task_result(M, r).msg,
                                            code |-> task_result(M, r).code])]

\* abort()/close(): the first one schedules connection_lost, later ones do nothing
transport_shut(M, c, why) ==
    IF M.closed[c] # "no" THEN M
    ELSE call_soon([M EXCEPT !.closed[c] = why], "lost", c)

transport_abort(M, c) == transport_shut(M, c, "abort")

transport_close(M, c) == transport_shut(M, c, "close")

\* ------------------------------------------------------------ application
\* the methods getattr(self.handler, name, None) finds on the handler
HasMethod(a, h, name) ==
    IF a = "base"
    THEN name \in InfoNames \cup MempoolNames \cup ConsensusNames
    ELSE \/ h = "Info" /\ name \in InfoNames
         \/ h = "Mempool" /\ name \in MempoolNames
         \/ h = "Consensus" /\ name \in ConsensusNames

\* get_connection_handler of the extended application awaits the initial
\* state and the handler factories; the monolithic one returns self at once
ResolverMaySuspend(a) == a = "ext"

\* the extended application has no StateSync handler
ResolverRaises(a, k) == a = "ext" /\ k = "StateSync"

\* -------------------------------------------------------------- work unit
\* the task ends: "exc" with an exception, "ok" with a response, "err" with
\* a response that carries a non-zero application code
TaskFinish(M, r, res) ==
    call_soon([M EXCEPT !.reqs[r].st = IF res = "exc" THEN "exc" ELSE "ok",
                        !.reqs[r].code = IF res = "err" THEN 1 ELSE 0], "done", r)

\* mutant: a request nobody implements is answered with an empty response
Lookup_lenient(M, r, out) ==
    LET c == M.reqs[r].conn
        name == M.reqs[r].name
    IN  IF M.handler[c] # "None" /\ HasMethod(app, M.handler[c], name)
        THEN LET M1 == [M EXCEPT !.reqs[r].inv = TRUE]
             IN  IF out = "suspend" THEN [M1 EXCEPT !.reqs[r].st = "handling"]
                 ELSE TaskFinish(M1, r, out)
        ELSE TaskFinish(M, r, "ok")

\* async_response from the handler lookup on (protocol.py 145-156)
Lookup(M, r, out) ==
    LET c == M.reqs[r].conn
        name == M.reqs[r].name
    IN  IF M.handler[c] # "None" /\ HasMethod(app, M.handler[c], name)
        THEN LET M1 == [M EXCEPT !.reqs[r].inv = TRUE]
             IN  IF out = "suspend" THEN [M1 EXCEPT !.reqs[r].st = "handling"]
                 ELSE TaskFinish(M1, r, out)
        ELSE IF name \in EngineNames THEN TaskFinish(M, r, "ok")
        ELSE TaskFinish(M, r, "exc")

\* one step of the task of request r: from its start or from a wake-up
async_response(M, r, susp, out) ==
    LET c == M.reqs[r].conn
        st == M.reqs[r].st
    IN  CASE st = "new" ->
               IF M.handler[c] = "None" /\ M.kind[c] # "None"
               THEN LET M1 == [M EXCEPT !.calls[c] = Append(@, M.kind[c]),
                                        !.reqs[r].rsv = TRUE]
                    IN  IF ResolverRaises(app, M.kind[c]) THEN TaskFinish(M1, r, "exc")
                        ELSE IF susp /\ ResolverMaySuspend(app)
                        THEN [M1 EXCEPT !.reqs[r].st = "resolving",
                                        !.reqs[r].arg = M.kind[c]]
                        ELSE Lookup([M1 EXCEPT !.handler[c] = M.kind[c]], r, out)
               ELSE Lookup(M, r, out)
          [] st = "resolved" ->
               Lookup([M EXCEPT !.handler[c] = M.reqs[r].arg,
                                !.reqs[r].arg = "None"], r, out)
          [] st = "waking" ->
               TaskFinish(M, r, IF out = "suspend" THEN "ok" ELSE out)
          [] OTHER -> M

create_task(M, r) ==
    call_soon([M EXCEPT !.reqs[r].st = "new"], "step", r)

\* --------------------------------------------------------------- protocol
\* mutant: the tag is read when the callback runs (the connection's latest request)
process_response_latest(M, c, r, name) ==
    LET S == {q \in DOMAIN M.reqs : M.reqs[q].conn = c}
        last == CHOOSE q \in S : \A o \in S : o <= q
    IN  transport_write(M, c, r, M.reqs[last].name)

process_response(M, c, r, name) == transport_write(M, c, r, name)

\* mutant: a failure is logged and the transport left open
process_task_done_logged(M, r) ==
    LET c == M.reqs[r].conn
        name == M.reqs[r].name
    IN  IF M.reqs[r].st = "exc"
        THEN [M EXCEPT !.reqs[r].st = "finexc"]
        ELSE process_response([M EXCEPT !.reqs[r].st = "finok"], c, r, name)

\* the done callback built in process_request: lambda task: self.process_task_done(name, task)
process_task_done(M, r) ==
    LET c == M.reqs[r].conn
        name == M.reqs[r].name
    IN  IF M.reqs[r].st = "exc"
        THEN transport_abort([M EXCEPT !.reqs[r].st = "finexc"], c)
        ELSE process_response([M EXCEPT !.reqs[r].st = "finok"], c, r, name)

\* ------------------------------------------------------------- processors
RequestOrdered_turn(M, p) ==
    IF M.current[p] = 0 /\ Len(M.reqTasks) > 0
    THEN LET r == Head(M.reqTasks)
         IN  create_task([M EXCEPT !.reqTasks = Tail(@), !.current[p] = r], r)
    ELSE M

RequestOrdered_call(M, p, r) ==
    LET M1 == [M EXCEPT !.reqTasks = Append(@, r)]
    IN  IF M1.current[p] = 0 THEN RequestOrdered_turn(M1, p) ELSE M1

RequestOrdered_done(M, p, r) ==
    process_task_done([M EXCEPT !.current[p] = 0], r)

\* mutant: every finished task of the deque is drained, not only a finished head
RECURSIVE ResponseOrdered_turn_any(_)
ResponseOrdered_turn_any(M) ==
    LET done == {i \in DOMAIN M.respTasks : M.reqs[M.respTasks[i]].st \in {"ok", "exc"}}
    IN  IF done = {} THEN M
        ELSE LET i == CHOOSE x \in done : \A y \in done : x <= y
                 M1 == process_task_done(M, M.respTasks[i])
             IN  ResponseOrdered_turn_any(
                     [M1 EXCEPT !.respTasks = SubSeq(@, 1, i - 1) \o SubSeq(@, i + 1, Len(@))])

RECURSIVE ResponseOrdered_turn(_)
ResponseOrdered_turn(M) ==
    IF Len(M.respTasks) = 0 THEN M
    ELSE LET r == Head(M.respTasks)
         IN  IF M.reqs[r].st \in {"ok", "exc"}
             THEN \* the loop goes on from the state m the callback left
                  CHOOSE x \in {ResponseOrdered_turn(m) :
                                   m \in {[process_task_done(M, r)
                                              EXCEPT !.respTasks = Tail(@)]}} : TRUE
             ELSE M

ResponseOrdered_call(M, p, r) ==
    LET M1 == create_task(M, r)
    IN  [M1 EXCEPT !.respTasks = Append(@, r)]

\* mutant: the request-ordered processor has no second done callback (_turn)
task_done_callbacks_no_turn(M, r) ==
    IF M.reqs[r].via = "Request"
    THEN LET p == CHOOSE q \in Conns : M.current[q] = r
         IN  RequestOrdered_done(M, p, r)
    ELSE ResponseOrdered_turn(M)

\* the done callbacks of task r, run back to back by the loop
task_done_callbacks(M, r) ==
    IF M.reqs[r].via = "Request"
    THEN LET p == CHOOSE q \in Conns : M.current[q] = r
         IN  \* _turn runs in the state m that _done left
             CHOOSE x \in {RequestOrdered_turn(m, p) :
                              m \in {RequestOrdered_done(M, p, r)}} : TRUE
    ELSE ResponseOrdered_turn(M)

\* ----------------------------------------------------------- classification
\* mutant: check_tx listed with the Info names
Classify_check_tx_info(name) ==
    IF name \in InfoNames \cup {"check_tx"} THEN "Info"
    ELSE IF name \in ConsensusNames THEN "Consensus"
    ELSE IF name \in StateSyncNames THEN "StateSync"
    ELSE "None"

Classify(name) ==
    IF name \in InfoNames THEN "Info"
    ELSE IF name \in ConsensusNames THEN "Consensus"
    ELSE IF name \in StateSyncNames THEN "StateSync"
    ELSE IF name = "check_tx" THEN "Mempool"
    ELSE "None"

\* mutant: the classification is not guarded by handler_type being unset
process_request_reclassify(M, c, name, message) ==
    LET k == IF Classify(name) # "None" THEN Classify(name) ELSE M.kind[c]
        d == IF k = "Consensus" /\ M.kind[c] # k THEN "Request" ELSE M.proc[c]
        r == Len(M.reqs) + 1
        M1 == [M EXCEPT !.kind[c] = k, !.proc[c] = d,
                        !.reqs = Append(@, [conn |-> c, name |-> name, data |-> message,
                                            st |-> "coro", via |-> d, inv |-> FALSE,
                                            rsv |-> FALSE, arg |-> "None", code |-> 0])]
    IN  IF d = "Request" THEN RequestOrdered_call(M1, c, r)
        ELSE ResponseOrdered_call(M1, c, r)

process_request(M, c, name, message) ==
    LET k == IF M.kind[c] = "None" THEN Classify(name) ELSE M.kind[c]
        d == IF M.kind[c] = "None" /\ k = "Consensus" THEN "Request" ELSE M.proc[c]
        r == Len(M.reqs) + 1
        M1 == [M EXCEPT !.kind[c] = k, !.proc[c] = d,
                        !.reqs = Append(@, [conn |-> c, name |-> name, data |-> message,
                                            st |-> "coro", via |-> d, inv |-> FALSE,
                                            rsv |-> FALSE, arg |-> "None", code |-> 0])]
    IN  IF d = "Request" THEN RequestOrdered_call(M1, c, r)
        ELSE ResponseOrdered_call(M1, c, r)

\* mutant: a frame is taken only when bytes follow it in the buffer
RECURSIVE data_received_loop_strict(_, _)
data_received_loop_strict(M, c) ==
    IF Len(M.buffer[c]) = 0 THEN M
    ELSE LET v == decode_varint(M.buffer[c], 0)
             pos == v.pos
             length == v.result \div 2
         IN  IF ~v.ok THEN transport_shut(M, c, "fatal")
             ELSE IF Len(M.buffer[c]) > pos + length
             THEN LET data == SubSeq(M.buffer[c], pos + 1, pos + length)
                      rest == SubSeq(M.buffer[c], pos + length + 1, Len(M.buffer[c]))
                      one == which_one_of(data)
                  IN  data_received_loop_strict(
                          process_request([M EXCEPT !.buffer[c] = rest], c,
                                          one.name, one.message), c)
             ELSE M

\* the while loop of data_received; an exception that leaves data_received
\* makes the transport close itself (fatal error) and schedule connection_lost
RECURSIVE data_received_loop(_, _)
data_received_loop(M, c) ==
    IF Len(M.buffer[c]) = 0 THEN M
    ELSE LET v == decode_varint(M.buffer[c], 0)
             pos == v.pos
             length == v.result \div 2
         IN  IF ~v.ok THEN transport_shut(M, c, "fatal")
             ELSE IF Len(M.buffer[c]) >= pos + length
             THEN LET data == SubSeq(M.buffer[c], pos + 1, pos + length)
                      rest == SubSeq(M.buffer[c], pos + length + 1, Len(M.buffer[c]))
                      one == which_one_of(data)
                  IN  data_received_loop(
                          process_request([M EXCEPT !.buffer[c] = rest], c,
                                          one.name, one.message), c)
             ELSE M

data_received(M, c, data) ==
    data_received_loop([M EXCEPT !.buffer[c] = @ \o data], c)

connection_made(M, c) ==
    [M EXCEPT !.made = @ \cup {c}, !.connections = @ \cup {c}]

\* mutant: stop is created whether or not the registry is empty
connection_lost_always(M, c) ==
    call_soon([M EXCEPT !.connections = @ \ {c}], "stop", 0)

\* mutant: only a connection that has a handler is discarded
connection_lost_with_handler(M, c) ==
    LET M1 == IF M.handler[c] # "None" THEN [M EXCEPT !.connections = @ \ {c}] ELSE M
    IN  IF M1.connections = {} THEN call_soon(M1, "stop", 0) ELSE M1

connection_lost(M, c) ==
    LET M1 == [M EXCEPT !.connections = @ \ {c}]
    IN  IF M1.connections = {} THEN call_soon(M1, "stop", 0) ELSE M1

\* ----------------------------------------------------------------- server
RECURSIVE close_all(_, _)
close_all(M, order) ==
    IF order = <<>> THEN M
    ELSE close_all(transport_close(M, Head(order)), Tail(order))

\* _srv.close() cancels the serve_forever of that listener, which wakes the
\* start coroutine awaiting it
srv_close(M) ==
    IF M.srv = "open"
    THEN call_soon([M EXCEPT !.srv = "closed", !.stopPc = "closed"], "startwake", M.srvBy)
    ELSE [M EXCEPT !.stopPc = "closed"]

\* mutant: the listener is closed without waiting for the registry
stop_wait_eager(M) == srv_close(M)

\* mutant: the loop has no deadline
stop_wait_no_deadline(M) ==
    IF M.connections # {}
    THEN [M EXCEPT !.stopPc = "sleeping"]
    ELSE srv_close(M)

\* the while loop of stop: leave it when the registry is empty or the deadline passed
stop_wait(M) ==
    IF M.connections # {} /\ ~M.expired
    THEN [M EXCEPT !.stopPc = "sleeping"]
    ELSE srv_close(M)

\* mutant: the guard does not test _stopping
stop_unguarded(M, order, late) ==
    IF M.srv # "none"
    THEN stop_wait(close_all([M EXCEPT !.stopping = TRUE, !.expired = late], order))
    ELSE M

\* first step of a stop() coroutine; late: close_timeout is not positive
stop(M, order, late) ==
    IF M.srv # "none" /\ ~M.stopping
    THEN stop_wait(close_all([M EXCEPT !.stopping = TRUE, !.expired = late], order))
    ELSE M

\* Server.start up to the await of create_server
start(M, i) ==
    IF M.srv # "none"
    THEN [M EXCEPT !.nstart = i, !.startPc[i] = "refused"]
    ELSE [M EXCEPT !.nstart = i, !.startPc[i] = "binding"]

\* create_server returns to start call i: with OSError, or with a listener
\* that is assigned to _srv and served
start_bound(M, i, ok) ==
    IF ~ok THEN [M EXCEPT !.startPc[i] = "failed"]
    ELSE [M EXCEPT !.startPc[i] = "serving", !.srv = "open", !.srvBy = i,
                   !.stray = IF M.srv = "open" THEN @ \cup {M.srvBy} ELSE @]

\* serve_forever of start call i was cancelled: start leaves through finally
start_return(M, i) ==
    [M EXCEPT !.startPc[i] = "returned", !.srv = "none", !.srvBy = 0,
              !.stray = IF M.srv = "open" /\ M.srvBy # i THEN @ \cup {M.srvBy} ELSE @]

Orders(S) == {o \in [1..Cardinality(S) -> S] : \A i, j \in DOMAIN o : i # j => o[i] # o[j]}

\* ---------------------------------------------------------------- actions
\* inputs of the environment so far
Events == Len(sent) + nsig + Cardinality({c \in Conns : closed[c] = "peer"})

Init ==
    /\ app \in {"base", "ext"}
    /\ srv = "none" /\ srvBy = 0 /\ stray = {} /\ stopping = FALSE
    /\ startPc = [i \in Calls |-> "idle"] /\ stopPc = "idle" /\ expired = FALSE
    /\ connections = {} /\ made = {} /\ nsig = 0 /\ nstart = 0
    /\ kind = [c \in Conns |-> "None"]
    /\ proc = [c \in Conns |-> "Response"]
    /\ handler = [c \in Conns |-> "None"]
    /\ calls = [c \in Conns |-> <<>>]
    /\ current = [c \in Conns |-> 0]
    /\ reqTasks = <<>> /\ respTasks = <<>>
    /\ reqs = <<>> /\ ready = <<>>
    /\ buffer = [c \in Conns |-> <<>>]
    /\ sent = <<>>
    /\ wire = [c \in Conns |-> <<>>]
    /\ closed = [c \in Conns |-> "no"]
    /\ written = [c \in Conns |-> <<>>]
    /\ app_state = <<>> /\ block_height = <<>> /\ tx_hashes = <<>>
    /\ commits = [h \in 0..MaxHeight |-> <<>>]
    /\ lastCall = [call |-> "none", height |-> 0, hash |-> <<>>, before |-> <<>>, err |-> FALSE]
    /\ keeper = [state |-> <<>>, shared |-> FALSE, bh |-> <<>>]
    /\ ext_app_state = <<>> /\ awaited = {}
    /\ gets = <<>>
    /\ response_queue = <<>> /\ lhandler = "None" /\ lreqs = <<>> /\ lwritten = <<>>

\* the program calls Server.start
Start ==
    /\ nstart < lim.starts
    /\ Becomes(start(St, nstart + 1))

\* create_server returns
StartBound ==
    \E i \in Calls, ok \in BOOLEAN :
        /\ startPc[i] = "binding"
        /\ Becomes(start_bound(St, i, ok))

\* the loop resumes a start coroutine whose serve_forever was cancelled
StartReturn ==
    /\ ready # <<>> /\ Head(ready)[1] = "startwake"
    /\ Becomes(start_return([St EXCEPT !.ready = Tail(@)], Head(ready)[2]))

\* the listener accepts a connection: Protocol() and connection_made
ConnectionMade ==
    \E c \in Conns :
        /\ (srv = "open" \/ stray # {}) /\ c \notin made /\ Cardinality(made) < lim.conns
        /\ \A d \in Conns : d < c => d \in made
        /\ Becomes(connection_made(St, c))

\* encode(payload) with the header's low bit, which the receiver shifts out
Frame(data, low) == [hdr |-> encode_varint(2 * Len(data) + low), data |-> data]

\* the frames a peer sends
PeerFrames ==
    {Frame(Payload(name, body), low) : name \in lim.names, body \in lim.bodies, low \in lim.low}

peer_send(M, c, f) ==
    [M EXCEPT !.sent = Append(@, [conn |-> c, hdr |-> f.hdr, data |-> f.data]),
              !.wire[c] = @ \o f.hdr \o f.data]

\* the socket becomes readable with the first k bytes in flight
segment_received(M, c, k) ==
    data_received([M EXCEPT !.wire[c] = SubSeq(@, k + 1, Len(@))], c, SubSeq(M.wire[c], 1, k))

\* a peer sends a frame and it arrives in one piece: one data_received call
DataReceived ==
    \E c \in made, f \in PeerFrames :
        /\ closed[c] = "no" /\ wire[c] = <<>> /\ Events < lim.events
        /\ Becomes(segment_received(peer_send(St, c, f), c, Len(f.hdr) + Len(f.data)))

\* a peer sends a frame; the network holds it
PeerSend ==
    \E c \in made, f \in PeerFrames :
        /\ closed[c] = "no" /\ Events < lim.events
        /\ Becomes(peer_send(St, c, f))

\* some of the bytes in flight arrive: one data_received call
SegmentReceived ==
    \E c \in made :
        /\ closed[c] = "no"
        /\ \E k \in 1..Len(wire[c]) : Becomes(segment_received(St, c, k))

\* the peer closes the socket
PeerClose ==
    \E c \in made :
        /\ closed[c] = "no" /\ Events < lim.events
        /\ Becomes(transport_shut(St, c, "peer"))

\* SIGINT/SIGTERM: the handler installed by start creates a stop() task
Signal ==
    /\ \E i \in Calls : startPc[i] \in {"binding", "serving"}
    /\ Events < lim.events
    /\ Becomes(call_soon([St EXCEPT !.nsig = @ + 1], "stop", 0))

\* the loop runs the next step of a request's task
TaskStep ==
    /\ ready # <<>> /\ Head(ready)[1] = "step"
    /\ \E susp \in BOOLEAN, out \in lim.outs :
          Becomes(async_response([St EXCEPT !.ready = Tail(@)], Head(ready)[2], susp, out))

\* what the resolver awaits completes
ResolverReturn ==
    \E r \in DOMAIN reqs :
        /\ reqs[r].st = "resolving"
        /\ Becomes(call_soon([St EXCEPT !.reqs[r].st = "resolved"], "step", r))

\* what the handler awaits completes
HandlerReturn ==
    \E r \in DOMAIN reqs :
        /\ reqs[r].st = "handling"
        /\ Becomes(call_soon([St EXCEPT !.reqs[r].st = "waking"], "step", r))

\* the loop runs the done callbacks of a finished task
TaskDone ==
    /\ ready # <<>> /\ Head(ready)[1] = "done"
    /\ Becomes(task_done_callbacks([St EXCEPT !.ready = Tail(@)], Head(ready)[2]))

\* the loop calls connection_lost
ConnectionLost ==
    /\ ready # <<>> /\ Head(ready)[1] = "lost"
    /\ Becomes(connection_lost([St EXCEPT !.ready = Tail(@)], Head(ready)[2]))

\* the loop runs the first step of a stop() task
Stop ==
    /\ ready # <<>> /\ Head(ready)[1] = "stop"
    /\ \E order \in Orders(connections), late \in BOOLEAN :
          Becomes(stop([St EXCEPT !.ready = Tail(@)], order, late))

\* close_timeout has elapsed since stop computed its deadline
DeadlinePassed ==
    /\ stopPc = "sleeping" /\ ~expired
    /\ Becomes([St EXCEPT !.expired = TRUE])

\* asyncio.sleep(0.1) in stop elapses and the while condition is evaluated again
StopPoll ==
    /\ stopPc = "sleeping"
    /\ Becomes(stop_wait(St))

\* ------------------------------------------------- application state
Heights == 0..MaxHeight

Txs == 1..MaxTxs

\* hashlib.sha256 as a function without collisions
sha256(x) == <<"sha256", x>>

AppState(h, hash) == [block_height |-> h, app_hash |-> hash]

\* DummyBlockHasher.sum(): the hash of the recorded tx hashes, in order
hasher_sum(hashes) == sha256(hashes)

\* the app_hash values used by direct callers of update_app_state
Hashes == {<<>>} \cup {hasher_sum(<<sha256(tx)>>) : tx \in Txs}

\* CommonApp.update_app_state
update_app_state(st, new) ==
    LET s1 == IF st = <<>> THEN <<new>> ELSE st
    IN  IF new.block_height > s1[1].block_height
        THEN [state |-> <<new>>, err |-> FALSE]
        ELSE IF new.block_height = s1[1].block_height /\ new.app_hash # s1[1].app_hash
        THEN [state |-> s1, err |-> TRUE]
        ELSE [state |-> s1, err |-> FALSE]

\* what the caller sees of a call; the state before it is kept for the calls
\* of update_app_state
Called(call, h, hash, err) ==
    lastCall' = [call |-> call, height |-> h, hash |-> hash, err |-> err,
                 before |-> IF call = "update_app_state" THEN app_state ELSE <<>>]

\* the application calls update_app_state itself (its initial state, a sync)
UpdateAppState ==
    \E h \in Heights, hash \in Hashes :
        LET u == update_app_state(app_state, AppState(h, hash))
        IN  /\ app_state' = u.state
            /\ Called("update_app_state", h, hash, u.err)
            /\ UNCHANGED <<block_height, tx_hashes, commits>>
            /\ UNCHANGED <<app, lim>> /\ UNCHANGED srvvars /\ UNCHANGED legacyvars

\* TxKeeper.init_chain: genesis app state makes load_genesis raise
InitChain ==
    \E genesis \in BOOLEAN :
        /\ Called("init_chain", 0, <<>>, genesis)
        /\ UNCHANGED <<app_state, block_height, tx_hashes, commits>>
        /\ UNCHANGED <<app, lim>> /\ UNCHANGED srvvars /\ UNCHANGED legacyvars

\* TxKeeper.begin_block
BeginBlock ==
    /\ Called("begin_block", 0, <<>>, FALSE)
    /\ UNCHANGED <<app_state, block_height, tx_hashes, commits>>
    /\ UNCHANGED <<app, lim>> /\ UNCHANGED srvvars /\ UNCHANGED legacyvars

\* mutant: the hash is recorded without looking for a duplicate
write_hash_unchecked(hashes, tx_hash) ==
    [hashes |-> Append(hashes, tx_hash), err |-> FALSE]

\* DummyBlockHasher.write_hash: raises on a hash already recorded
write_hash(hashes, tx_hash) ==
    IF \E i \in DOMAIN hashes : hashes[i] = tx_hash
    THEN [hashes |-> hashes, err |-> TRUE]
    ELSE [hashes |-> Append(hashes, tx_hash), err |-> FALSE]

\* DummyBlockHasher.write_tx: the hash of the tx bytes is recorded
write_tx(hashes, tx) == write_hash(hashes, sha256(tx))

\* TxKeeper.deliver_tx
DeliverTx ==
    \E tx \in Txs :
        LET w == write_tx(tx_hashes, tx)
        IN  /\ tx_hashes' = w.hashes
            /\ Called("deliver_tx", 0, sha256(tx), w.err)
            /\ UNCHANGED <<app_state, block_height, commits>>
            /\ UNCHANGED <<app, lim>> /\ UNCHANGED srvvars /\ UNCHANGED legacyvars

\* TxKeeper.end_block
EndBlock ==
    \E h \in Heights :
        /\ block_height' = <<h>>
        /\ Called("end_block", h, <<>>, FALSE)
        /\ UNCHANGED <<app_state, tx_hashes, commits>>
        /\ UNCHANGED <<app, lim>> /\ UNCHANGED srvvars /\ UNCHANGED legacyvars

\* TxKeeper.commit
Commit ==
    IF block_height = <<>>
    THEN /\ Called("commit", 0, <<>>, TRUE)
         /\ UNCHANGED <<app_state, block_height, tx_hashes, commits>>
         /\ UNCHANGED <<app, lim>> /\ UNCHANGED srvvars /\ UNCHANGED legacyvars
    ELSE LET new == AppState(block_height[1], hasher_sum(tx_hashes))
             u == update_app_state(app_state, new)
         IN  /\ tx_hashes' = <<>>
             /\ app_state' = u.state
             /\ commits' = IF u.err \/ commits[new.block_height] # <<>> THEN commits
                           ELSE [commits EXCEPT ![new.block_height] = <<new.app_hash>>]
             /\ Called("commit", new.block_height, new.app_hash, u.err)
             /\ UNCHANGED block_height
             /\ UNCHANGED <<app, lim>> /\ UNCHANGED srvvars /\ UNCHANGED legacyvars

InitApp ==
    /\ Init
    /\ lim = [names |-> {}, bodies |-> {}, low |-> {}, outs |-> {}, conns |-> 0,
              events |-> 0, starts |-> 0]

NextApp ==
    \/ UpdateAppState \/ InitChain \/ BeginBlock \/ DeliverTx \/ EndBlock \/ Commit

SpecApp == InitApp /\ [][NextApp]_vars

\* ---- the earlier package tend.abci: its applications ----

\* the state of the other variables of the earlier applications
LegacyAppFrame ==
    /\ UNCHANGED <<block_height, tx_hashes, commits>>
    /\ UNCHANGED <<response_queue, lhandler, lreqs, lwritten>>
    /\ UNCHANGED <<app, lim>> /\ UNCHANGED srvvars

\* mutant: begin_block keeps the application's state object itself
keeper_begin_block_no_clone(st) ==
    [state |-> st, shared |-> TRUE, bh |-> << <<>> >>]

\* tend.abci.ext TxKeeper.begin_block: a clone of the application's state
\* and a fresh hasher
keeper_begin_block(st) ==
    [state |-> st, shared |-> FALSE, bh |-> << <<>> >>]

\* tend.abci.ext TxKeeper.begin_block; the clone of a missing state raises
KeeperBeginBlock ==
    /\ IF app_state = <<>>
       THEN Called("begin_block", 0, <<>>, TRUE) /\ UNCHANGED keeper
       ELSE Called("begin_block", 0, <<>>, FALSE) /\ keeper' = keeper_begin_block(app_state)
    /\ UNCHANGED <<app_state, ext_app_state, awaited, gets>>
    /\ LegacyAppFrame

\* tend.abci.ext TxKeeper.deliver_tx; without a hasher the write raises
KeeperDeliverTx ==
    \E tx \in Txs :
        /\ IF keeper.bh = <<>>
           THEN Called("deliver_tx", 0, sha256(tx), TRUE) /\ UNCHANGED keeper
           ELSE LET w == write_tx(keeper.bh[1], tx)
                IN  /\ keeper' = [keeper EXCEPT !.bh = <<w.hashes>>]
                    /\ Called("deliver_tx", 0, sha256(tx), w.err)
        /\ UNCHANGED <<app_state, ext_app_state, awaited, gets>>
        /\ LegacyAppFrame

\* tend.abci.ext TxKeeper.end_block: the height is written into the keeper's
\* state object, which changes the application's state when it is that object
KeeperEndBlock ==
    \E h \in Heights :
        /\ IF keeper.state = <<>>
           THEN Called("end_block", h, <<>>, TRUE) /\ UNCHANGED <<keeper, app_state>>
           ELSE LET st == <<[keeper.state[1] EXCEPT !.block_height = h]>>
                IN  /\ keeper' = [keeper EXCEPT !.state = st]
                    /\ app_state' = IF keeper.shared THEN st ELSE app_state
                    /\ Called("end_block", h, <<>>, FALSE)
        /\ UNCHANGED <<ext_app_state, awaited, gets>>
        /\ LegacyAppFrame

\* tend.abci.ext TxKeeper.commit: the sum is written into the keeper's state
\* object, which is then passed to update_app_state; update_app_state keeps
\* the object itself when the application has no state and a clone of it
\* when its height is higher
KeeperCommit ==
    /\ IF keeper.state = <<>> \/ keeper.bh = <<>>
       THEN Called("commit", 0, <<>>, TRUE) /\ UNCHANGED <<keeper, app_state>>
       ELSE LET st == [keeper.state[1] EXCEPT !.app_hash = hasher_sum(keeper.bh[1])]
                cur == IF keeper.shared THEN <<st>> ELSE app_state
                u == update_app_state(cur, st)
            IN  /\ app_state' = u.state
                /\ keeper' = [keeper EXCEPT
                                 !.state = <<st>>,
                                 !.shared = IF cur = <<>> THEN TRUE
                                            ELSE IF st.block_height > cur[1].block_height
                                            THEN FALSE ELSE keeper.shared]
                /\ Called("commit", st.block_height, st.app_hash, u.err)
    /\ UNCHANGED <<ext_app_state, awaited, gets>>
    /\ LegacyAppFrame

\* the application sets its state itself (its initial state in
\* get_connection_handler, a sync), with an object of its own
KeeperAppUpdate ==
    \E h \in Heights, hash \in Hashes :
        LET u == update_app_state(app_state, AppState(h, hash))
        IN  /\ app_state' = u.state
            /\ keeper' = [keeper EXCEPT !.shared = IF u.state = app_state THEN @ ELSE FALSE]
            /\ Called("update_app_state", h, hash, u.err)
            /\ UNCHANGED <<ext_app_state, awaited, gets>>
            /\ LegacyAppFrame

\* the kinds the engine asks a handler for
HandlerKinds == {"Info", "Mempool", "Consensus", "StateSync"}

\* awaiting a factory coroutine object of ExtApplication: a coroutine object
\* can be awaited once; the keeper's constructor clones the application's
\* state, which raises while there is none
await_factory(done, st, k) ==
    IF k \in done THEN "RuntimeError"
    ELSE IF k = "Consensus" /\ st = <<>> THEN "TypeError"
    ELSE "handler"

\* tend.abci.extend ExtApplication.get_connection_handler
get_connection_handler(done, st, k) ==
    IF k = "Info" THEN [res |-> "handler", awaited |-> done]
    ELSE IF k \in {"Mempool", "Consensus"}
    THEN [res |-> await_factory(done, st, k), awaited |-> done \cup {k}]
    ELSE [res |-> "NotImplementedError", awaited |-> done]

\* a connection's first request makes the engine ask for a handler
ExtGetConnectionHandler ==
    \E k \in HandlerKinds :
        /\ Len(gets) < MaxGets
        /\ LET g == get_connection_handler(awaited, ext_app_state, k)
           IN  /\ awaited' = g.awaited
               /\ gets' = Append(gets, [kind |-> k, res |-> g.res])
        /\ UNCHANGED <<ext_app_state, keeper, app_state, lastCall>>
        /\ LegacyAppFrame

\* tend.abci.extend ExtApplication.info: sets the default state when there
\* is none
ExtInfo ==
    /\ ext_app_state' = IF ext_app_state = <<>> THEN <<AppState(0, <<>>)>> ELSE ext_app_state
    /\ UNCHANGED <<awaited, gets, keeper, app_state, lastCall>>
    /\ LegacyAppFrame

InitLegacyApp ==
    /\ Init
    /\ lim = [names |-> {}, bodies |-> {}, low |-> {}, outs |-> {}, conns |-> 0,
              events |-> 0, starts |-> 0]

NextKeeper ==
    \/ KeeperAppUpdate \/ KeeperBeginBlock \/ KeeperDeliverTx \/ KeeperEndBlock
    \/ KeeperCommit

\* the application and the keeper of tend.abci.ext, called in any order
SpecKeeper == InitLegacyApp /\ [][NextKeeper]_vars

NextExtApp == ExtGetConnectionHandler \/ ExtInfo

\* the application of tend.abci.extend, asked for handlers in any order
SpecExtApp == InitLegacyApp /\ [][NextExtApp]_vars

\* ---- the earlier package tend.abci: its engine, one connection ----

\* the requests the peer of the connection sends
LegacyNames == {"flush", "echo", "deliver_tx", "end_block"}

\* an entry of response_queue: the task of request r, or the tuple
\* (name, message) parked for request r
Task(r) == [name |-> "task", r |-> r]
Marker(name, r) == [name |-> name, r |-> r]
IsTask(e) == e.name = "task"

\* the tasks in response_queue, as the wait of end_block counts them
NTasks(queue) == Cardinality({i \in DOMAIN queue : IsTask(queue[i])})

\* mutant: the wait ends while one other task is in the queue
end_block_waits_for_one(queue) == NTasks(queue) > 2

\* the condition of the wait loop of end_block
end_block_waits(queue) == NTasks(queue) > 1

\* mutant: a flush is never parked
flush_parks_never(queue) == FALSE

\* data_received parks a flush while the queue has entries
flush_parks(queue) == Len(queue) > 0

\* the number of flush markers at the head of the queue
RECURSIVE flush_markers(_)
flush_markers(queue) ==
    IF queue # <<>> /\ ~IsTask(queue[1]) /\ queue[1].name = "flush"
    THEN 1 + flush_markers(Tail(queue))
    ELSE 0

\* deque.remove: the queue without its first occurrence of e
RECURSIVE queue_remove(_, _)
queue_remove(queue, e) ==
    IF queue = <<>> THEN <<>>
    ELSE IF queue[1] = e THEN Tail(queue)
    ELSE <<queue[1]>> \o queue_remove(Tail(queue), e)

\* the state of a part of the earlier engine
LegacyFrame ==
    /\ UNCHANGED <<keeper, ext_app_state, awaited, gets>>
    /\ UNCHANGED appvars
    /\ UNCHANGED <<app, lim>> /\ UNCHANGED srvvars

\* Protocol.data_received for one frame: a flush is written at once or
\* parked, an echo is written at once, another request becomes a task
LegacyDataReceived ==
    \E name \in LegacyNames :
        LET r == Len(lreqs) + 1
        IN  /\ Len(lreqs) < MaxRequests
            /\ IF name = "flush" /\ flush_parks(response_queue)
               THEN /\ response_queue' = Append(response_queue, Marker("flush", r))
                    /\ lreqs' = Append(lreqs, [name |-> name, st |-> "parked"])
                    /\ UNCHANGED lwritten
               ELSE IF name \in {"flush", "echo"}
               THEN /\ lwritten' = Append(lwritten, r)
                    /\ lreqs' = Append(lreqs, [name |-> name, st |-> "written"])
                    /\ UNCHANGED response_queue
               ELSE /\ response_queue' = Append(response_queue, Task(r))
                    /\ lreqs' = Append(lreqs, [name |-> name, st |-> "new"])
                    /\ UNCHANGED lwritten
            /\ UNCHANGED lhandler
            /\ LegacyFrame

\* async_response from the handler lookup on: end_block sleeps while other
\* tasks are in the queue, any other request calls its handler
legacy_enter(name, queue) ==
    IF name = "end_block" /\ end_block_waits(queue) THEN "sleeping" ELSE "running"

\* the first step of a task: without a handler it awaits the resolver
LegacyTaskStep ==
    \E r \in DOMAIN lreqs :
        /\ lreqs[r].st = "new"
        /\ lreqs' = [lreqs EXCEPT ![r].st =
                        IF lhandler = "None" THEN "resolving"
                        ELSE legacy_enter(lreqs[r].name, response_queue)]
        /\ UNCHANGED <<response_queue, lhandler, lwritten>>
        /\ LegacyFrame

\* get_connection_handler returns: the handler is assigned
LegacyResolved ==
    \E r \in DOMAIN lreqs :
        /\ lreqs[r].st = "resolving"
        /\ lhandler' = "Consensus"
        /\ lreqs' = [lreqs EXCEPT ![r].st = legacy_enter(lreqs[r].name, response_queue)]
        /\ UNCHANGED <<response_queue, lwritten>>
        /\ LegacyFrame

\* the sleep of a waiting end_block is over and the loop tests false
LegacyWake ==
    \E r \in DOMAIN lreqs :
        /\ lreqs[r].st = "sleeping"
        /\ ~end_block_waits(response_queue)
        /\ lreqs' = [lreqs EXCEPT ![r].st = "running"]
        /\ UNCHANGED <<response_queue, lhandler, lwritten>>
        /\ LegacyFrame

\* the handler returns or raises: the task is done
LegacyHandlerReturn ==
    \E r \in DOMAIN lreqs, out \in {"done", "failed"} :
        /\ lreqs[r].st = "running"
        /\ lreqs' = [lreqs EXCEPT ![r].st = out]
        /\ UNCHANGED <<response_queue, lhandler, lwritten>>
        /\ LegacyFrame

\* Protocol.process_response_task: the result is written, the task leaves
\* the queue, the flush markers at the head are written
LegacyTaskDone ==
    \E r \in DOMAIN lreqs :
        /\ lreqs[r].st \in {"done", "failed"}
        /\ LET q1 == queue_remove(response_queue, Task(r))
               n == flush_markers(q1)
               w1 == IF lreqs[r].st = "done" THEN Append(lwritten, r) ELSE lwritten
           IN  /\ response_queue' = SubSeq(q1, n + 1, Len(q1))
               /\ lwritten' = w1 \o [i \in 1..n |-> q1[i].r]
               /\ lreqs' = [i \in DOMAIN lreqs |->
                               IF i = r THEN [lreqs[i] EXCEPT !.st = "answered"]
                               ELSE IF \E j \in 1..n : q1[j].r = i
                               THEN [lreqs[i] EXCEPT !.st = "written"]
                               ELSE lreqs[i]]
        /\ UNCHANGED lhandler
        /\ LegacyFrame

NextLegacy ==
    \/ LegacyDataReceived \/ LegacyTaskStep \/ LegacyResolved \/ LegacyWake
    \/ LegacyHandlerReturn \/ LegacyTaskDone

\* one connection of the earlier engine
SpecLegacy == InitLegacyApp /\ [][NextLegacy]_vars

\* the same, where the loop runs what is ready and the resolver and the
\* handlers terminate
SpecLegacyLive ==
    /\ InitLegacyApp /\ [][NextLegacy]_vars
    /\ WF_vars(LegacyTaskStep) /\ WF_vars(LegacyResolved) /\ WF_vars(LegacyWake)
    /\ WF_vars(LegacyHandlerReturn) /\ WF_vars(LegacyTaskDone)

InitMain ==
    /\ Init
    /\ lim = [names |-> InputNames, bodies |-> {<<>>}, low |-> {0},
              outs |-> {"ok", "exc", "suspend"}, conns |-> MaxConns,
              events |-> MaxEvents, starts |-> MaxStarts - 1]

Next ==
    \/ Start \/ StartBound \/ StartReturn
    \/ ConnectionMade \/ DataReceived \/ PeerClose \/ Signal
    \/ TaskStep \/ ResolverReturn \/ HandlerReturn \/ TaskDone
    \/ ConnectionLost \/ Stop \/ DeadlinePassed \/ StopPoll

Spec == InitMain /\ [][Next]_vars

\* the same program under peers that send every request name, fewer inputs
InitNames ==
    /\ Init
    /\ lim = [names |-> RequestNames, bodies |-> {<<>>}, low |-> {0},
              outs |-> {"ok", "exc", "suspend"}, conns |-> MaxConns,
              events |-> MaxEvents - 1, starts |-> MaxStarts - 1]

SpecNames == InitNames /\ [][Next]_vars

\* the same program under peers whose requests differ in content and an
\* application whose handlers also answer with a non-zero code
InitContent ==
    /\ Init
    /\ lim = [names |-> {"echo", "deliver_tx"}, bodies |-> {<<1>>, <<2>>}, low |-> {0},
              outs |-> {"ok", "err", "exc", "suspend"}, conns |-> MaxConns,
              events |-> MaxEvents, starts |-> MaxStarts - 1]

SpecContent == InitContent /\ [][Next]_vars

\* a body that makes the payload 64 bytes long, the shortest whose header
\* takes two bytes; its bytes have the continuation bit of a varint set
LongBody == [i \in 1..62 |-> 129]

\* one connection whose peer's frames arrive in arbitrary segments: empty,
\* short and long payloads, headers with either low bit
InitFraming ==
    /\ Init
    /\ lim = [names |-> {"", "echo"}, bodies |-> {<<>>, LongBody}, low |-> {0, 1},
              outs |-> {"ok"}, conns |-> 1,
              events |-> MaxEvents - 1, starts |-> MaxStarts - 1]

NextFraming ==
    \/ Start \/ StartBound \/ StartReturn
    \/ ConnectionMade \/ PeerSend \/ SegmentReceived
    \/ TaskStep \/ TaskDone \/ ConnectionLost \/ Stop

SpecFraming == InitFraming /\ [][NextFraming]_vars

\* a program that calls Server.start more than once, at any time
InitStart ==
    /\ Init
    /\ lim = [names |-> {"info"}, bodies |-> {<<>>}, low |-> {0},
              outs |-> {"ok", "exc", "suspend"}, conns |-> MaxConns,
              events |-> MaxEvents - 1, starts |-> MaxStarts]

SpecStart == InitStart /\ [][Next]_vars

\* the event loop runs the callback at the head of its queue
LoopStep == TaskStep \/ TaskDone \/ ConnectionLost \/ Stop \/ StartReturn

\* an application whose handlers never raise, on a loop that keeps running:
\* every scheduled callback is run, and what the resolver or a handler
\* awaits completes
InitLive ==
    /\ Init
    /\ lim = [names |-> {"echo", "info", "deliver_tx"}, bodies |-> {<<>>}, low |-> {0},
              outs |-> {"ok", "suspend"}, conns |-> MaxConns,
              events |-> MaxEvents, starts |-> MaxStarts - 1]

SpecLive ==
    /\ InitLive /\ [][Next]_vars
    /\ WF_vars(LoopStep) /\ WF_vars(ResolverReturn) /\ WF_vars(HandlerReturn)

\* the server under the passing of time alone: the sleep of stop ends and
\* its deadline passes, while a callback the loop has scheduled (a
\* connection_lost call among them) may never run
SpecStopLive ==
    /\ InitStart /\ [][Next]_vars
    /\ WF_vars(StopPoll) /\ WF_vars(DeadlinePassed)

\* the server on a loop that keeps running, in a program that may call
\* start again: every scheduled callback is run, the sleep of stop ends and
\* its deadline passes
SpecServerLive ==
    /\ InitStart /\ [][Next]_vars
    /\ WF_vars(LoopStep) /\ WF_vars(StopPoll) /\ WF_vars(DeadlinePassed)

\* ------------------------------------------------------------ vocabulary
ReqsOf(c) == {r \in DOMAIN reqs : reqs[r].conn = c}

Finished(r) == reqs[r].st \in {"finok", "finexc"}

\* the application's handler method of request r is running
Executing(r) == reqs[r].inv /\ reqs[r].st \in {"handling", "waking"}

WrittenReqs(c) == {written[c][i].req : i \in DOMAIN written[c]}

InOrder(c) ==
    \A i, j \in DOMAIN written[c] : i < j => written[c][i].req < written[c][j].req

NStops(q) == Cardinality({i \in DOMAIN q : q[i][1] = "stop"})

Min(S) == CHOOSE x \in S : \A y \in S : x <= y

\* ------------------------------------------------------------------ claims

\* C1: on every connection the response frames written to the transport are
\* in the order in which their requests were decoded on that connection.
C1_ResponsesInReceiptOrder == \A c \in Conns : InOrder(c)

\* C2: on a Consensus connection at most one handler invocation executes at a
\* time, and a handler is started only after every earlier request of the
\* request-ordered queue has completed and its response callback has run.
C2_ConsensusSerialized ==
    \A c \in Conns :
        kind[c] = "Consensus" =>
            /\ Cardinality({r \in ReqsOf(c) : Executing(r)}) <= 1
            /\ \A r1, r2 \in ReqsOf(c) :
                   (r1 < r2 /\ reqs[r1].via = "Request" /\ reqs[r2].inv) => Finished(r1)

\* C3: the ResponseFlush of a RequestFlush is written after the response
\* frame of every request decoded before it on the same connection.
C3_FlushBarrier ==
    \A c \in Conns : \A i \in DOMAIN written[c] :
        written[c][i].tag = "flush" =>
            \A r \in ReqsOf(c) :
                r < written[c][i].req =>
                    \E j \in DOMAIN written[c] : j < i /\ written[c][j].req = r

\* C4: on a connection of kind Info, Mempool or StateSync every request is a
\* running task from the moment it is enqueued (none waits in a queue for an
\* earlier one to complete), and the responses are written in receipt order.
C4_ResponseOrderedOverlap ==
    \A c \in Conns :
        kind[c] \in {"Info", "Mempool", "StateSync"} =>
            /\ \A r \in ReqsOf(c) : reqs[r].via = "Response" /\ reqs[r].st # "coro"
            /\ InOrder(c)

\* C4 witness: two handlers of one Info connection in flight, the later one
\* completed while the earlier one is still running and nothing written yet.
C4_LaterCompletesFirst ==
    \E c \in Conns : \E r1, r2 \in ReqsOf(c) :
        /\ kind[c] = "Info" /\ r1 < r2
        /\ reqs[r1].inv /\ reqs[r1].st = "handling"
        /\ reqs[r2].inv /\ reqs[r2].st = "ok"
        /\ written[c] = <<>>

\* C5: a request whose work unit raised has no response frame, and once its
\* done callback has run the transport of its connection is shut.
C5_FailureAborts ==
    \A r \in DOMAIN reqs :
        /\ reqs[r].st \in {"exc", "finexc"} => r \notin WrittenReqs(reqs[r].conn)
        /\ reqs[r].st = "finexc" => closed[reqs[r].conn] # "no"

\* C5 witness: a handler method raised and the connection was aborted for it.
C5_HandlerFailed ==
    \E r \in DOMAIN reqs :
        reqs[r].inv /\ reqs[r].st = "finexc" /\ closed[reqs[r].conn] = "abort"

\* C6 as claimed: with no signal and no peer closing a socket, so that handler
\* failures are the only disturbance, the server never begins to stop.
C6_FailureNeverStopsServer ==
    (nsig = 0 /\ \A c \in Conns : closed[c] # "peer") =>
        (~stopping /\ \A i \in Calls : startPc[i] = "serving" => srv = "open")

\* C6 amended: an abort hits only a connection one of whose own requests
\* failed; the loss of an aborted connection that leaves other connections
\* registered changes nothing but the registry (listener, stop flag, the
\* other transports and all queued work are untouched), and when it leaves
\* the registry empty it creates one stop task; a response completed on a
\* connection whose transport is open is written.
C6_FailureIsLocal ==
    /\ [](\A r \in DOMAIN reqs :
             (reqs[r].st = "finok" /\ closed[reqs[r].conn] = "no")
                 => r \in WrittenReqs(reqs[r].conn))
    /\ [][/\ \A d \in Conns :
               (closed[d] = "no" /\ closed'[d] = "abort") =>
                   \E r \in DOMAIN reqs :
                       reqs[r].conn = d /\ reqs[r].st = "exc" /\ reqs'[r].st = "finexc"
          /\ \A c \in Conns :
               (c \in connections /\ c \notin connections' /\ closed[c] = "abort") =>
                   IF connections' # {}
                   THEN /\ NStops(ready') = NStops(ready)
                        /\ UNCHANGED <<srv, stopping, stopPc, startPc, closed, written,
                                       reqs, reqTasks, respTasks, current>>
                   ELSE NStops(ready') = NStops(ready) + 1]_vars

\* C6 witness: a connection aborted after a handler failure has left the
\* registry, another one is registered and served, the listener is open.
C6_OtherConnectionServed ==
    \E c, d \in Conns :
        /\ c # d /\ closed[c] = "abort" /\ c \in made \ connections
        /\ d \in connections /\ closed[d] = "no" /\ written[d] # <<>>
        /\ srv = "open" /\ ~stopping

\* the classification table as the claims state it
TableKind(n) ==
    CASE n \in {"info", "set_option", "query"} -> "Info"
      [] n = "check_tx" -> "Mempool"
      [] n \in {"init_chain", "begin_block", "deliver_tx", "end_block", "commit"} -> "Consensus"
      [] n \in {"list_snapshots", "offer_snapshot", "load_snapshot_chunk",
                "apply_snapshot_chunk"} -> "StateSync"
      [] OTHER -> "None"

KindFrom(c, S) ==
    /\ kind[c] = IF S = {} THEN "None" ELSE TableKind(reqs[Min(S)].name)
    /\ proc[c] = "Request" <=> kind[c] = "Consensus"

\* C7 as claimed: the kind is given by the table applied to the first
\* request that is neither echo nor flush.
C7_KindOfFirstNonEngineRequest ==
    \A c \in Conns :
        KindFrom(c, {r \in ReqsOf(c) : reqs[r].name \notin {"echo", "flush"}})

\* C7 amended: the kind is given by the table applied to the first request
\* whose name is in the table (echo, flush and a request with no variant set
\* never classify); the request-ordered processor is selected exactly when
\* the kind is Consensus.
C7_KindOfFirstClassifyingRequest ==
    \A c \in Conns :
        KindFrom(c, {r \in ReqsOf(c) : TableKind(reqs[r].name) # "None"})

\* C7 witness: echo, then a request with no variant, then a Mempool request.
C7_ClassifiedAfterEngineRequests ==
    \E c \in Conns : \E r1, r2 \in ReqsOf(c) :
        /\ r1 < r2 /\ reqs[r1].name \in {"echo", "flush", ""}
        /\ reqs[r2].name = "check_tx" /\ kind[c] = "Mempool" /\ proc[c] = "Response"

\* a request whose name the table gives to another kind than its connection's
CrossKind(r) ==
    /\ kind[reqs[r].conn] # "None"
    /\ TableKind(reqs[r].name) \notin {"None", kind[reqs[r].conn]}

\* C8: a kind once set never changes; the resolver is only called with the
\* connection's kind and the cached handler is the one of that kind; a
\* request of another kind is served by that handler or, when the handler
\* lacks the method, fails and the connection is aborted.
C8_KindIsPermanent ==
    /\ [](\A c \in Conns :
             /\ \A i \in DOMAIN calls[c] : calls[c][i] = kind[c]
             /\ handler[c] \in {"None", kind[c]}
             /\ \A r \in ReqsOf(c) :
                    (CrossKind(r) /\ Finished(r)) =>
                        \/ reqs[r].inv /\ HasMethod(app, kind[c], reqs[r].name)
                        \/ /\ ~reqs[r].inv /\ ~HasMethod(app, kind[c], reqs[r].name)
                           /\ reqs[r].st = "finexc" /\ closed[c] # "no")
    /\ [][\A c \in Conns : kind[c] # "None" => kind'[c] = kind[c]]_vars

\* C8 witness: a request of another kind has been processed to its end on a
\* classified connection.
C8_CrossKindProcessed ==
    \E r \in DOMAIN reqs : CrossKind(r) /\ Finished(r)

\* C9: get_connection_handler is called at most once per connection.
C9_ResolverCalledOnce == \A c \in Conns : Len(calls[c]) <= 1

C11_EchoAnsweredByEngine ==
    \A r \in DOMAIN reqs :
        reqs[r].name = "echo" =>
            /\ ~reqs[r].rsv /\ ~reqs[r].inv
            /\ \A i \in DOMAIN written[reqs[r].conn] :
                   written[reqs[r].conn][i].req = r =>
                       /\ written[reqs[r].conn][i].tag = "echo"
                       /\ written[reqs[r].conn][i].msg = reqs[r].data
            /\ (reqs[r].st = "finok" /\ closed[reqs[r].conn] = "no")
                   => r \in WrittenReqs(reqs[r].conn)

\* C12: a response with a non-zero application code does not abort the
\* connection (a transport is aborted only for a request that raised), it is
\* written with its code once its done callback has run on an open
\* transport, and when it is written the response of every request decoded
\* before it on the connection has been written before it.
C12_ErrorCodeAnsweredInOrder ==
    /\ \A c \in Conns :
           closed[c] = "abort" => \E r \in ReqsOf(c) : reqs[r].st = "finexc"
    /\ \A r \in DOMAIN reqs :
           (reqs[r].code # 0 /\ reqs[r].st = "finok" /\ closed[reqs[r].conn] = "no")
               => r \in WrittenReqs(reqs[r].conn)
    /\ \A c \in Conns : \A i \in DOMAIN written[c] :
           written[c][i].code # 0 =>
               /\ written[c][i].code = reqs[written[c][i].req].code
               /\ \A q \in ReqsOf(c) :
                      q < written[c][i].req =>
                          \E j \in DOMAIN written[c] : j < i /\ written[c][j].req = q

\* the frames a peer has sent on connection c, and the requests decoded on it
FramesOf(c) == SelectSeq(sent, LAMBDA f : f.conn = c)

RequestsOf(c) == SelectSeq(reqs, LAMBDA q : q.conn = c)

FrameBytes(f) == f.hdr \o f.data

\* bytes of the first k frames of F
RECURSIVE SumLen(_, _)
SumLen(F, k) == IF k = 0 THEN 0 ELSE SumLen(F, k - 1) + Len(FrameBytes(F[k]))

\* bytes of connection c that data_received has been given so far
Received(c) == SumLen(FramesOf(c), Len(FramesOf(c))) - Len(wire[c])

\* the frames of connection c that have arrived to their last byte
Complete(c) ==
    Cardinality({k \in 1..Len(FramesOf(c)) : SumLen(FramesOf(c), k) <= Received(c)})

\* the bytes that have arrived of the first frame that is not complete
Partial(c) ==
    IF Complete(c) = Len(FramesOf(c)) THEN <<>>
    ELSE SubSeq(FrameBytes(FramesOf(c)[Complete(c) + 1]), 1,
                Received(c) - SumLen(FramesOf(c), Complete(c)))

\* C13: after every receive the payloads dispatched on a connection are
\* those of the frames that have arrived completely, each once and in the
\* order sent, and the buffer holds exactly the bytes that have arrived of
\* the next frame (its header and partial payload, unchanged).
C13_CompleteFramesDispatched ==
    \A c \in Conns :
        /\ Len(RequestsOf(c)) = Complete(c)
        /\ \A i \in 1..Complete(c) :
               Payload(RequestsOf(c)[i].name, RequestsOf(c)[i].data) = FramesOf(c)[i].data
        /\ buffer[c] = Partial(c)

\* C13 witness: a long payload has been dispatched, and the two-byte header
\* of the next long frame waits in the buffer with a part of its payload.
C13_PartialPayloadBuffered ==
    \E c \in Conns :
        /\ Complete(c) = 1 /\ Len(FramesOf(c)) = 2
        /\ Len(RequestsOf(c)) = 1 /\ RequestsOf(c)[1].data = LongBody
        /\ Len(FramesOf(c)[2].hdr) = 2 /\ Len(buffer[c]) > 2
        /\ closed[c] = "no"

\* C14: however the bytes of encode(p) are split over receives, also inside
\* the varint header, the connection is not broken by it, nothing is
\* dispatched before the last byte of the frame has arrived, and once all
\* bytes have arrived on an open connection p has been dispatched once.
C14_SplitRoundTrip ==
    \A c \in Conns :
        /\ closed[c] # "fatal"
        /\ Len(RequestsOf(c)) <= Complete(c)
        /\ (wire[c] = <<>> /\ closed[c] = "no") =>
               /\ Len(RequestsOf(c)) = Len(FramesOf(c))
               /\ \A i \in 1..Len(FramesOf(c)) :
                      Payload(RequestsOf(c)[i].name, RequestsOf(c)[i].data)
                          = FramesOf(c)[i].data

\* the step is the first step of a stop() task: the loop takes it from the
\* head of the queue (every other step leaves the queue's content in place)
StopCalled ==
    /\ ready # <<>> /\ Head(ready)[1] = "stop"
    /\ ~(Len(ready') >= Len(ready) /\ SubSeq(ready', 1, Len(ready)) = ready)

\* everything but the loop's queue
quiet == <<srv, srvBy, stray, stopping, startPc, stopPc, expired, connections, made,
           nsig, nstart, kind, proc, handler, calls, current, reqTasks, respTasks,
           reqs, buffer, sent, wire, closed, written>>

\* C15: a stop call that finds the listener set and the server not stopping
\* marks it stopping and closes every registered transport; the flag is
\* never cleared, and every other stop call, whenever it runs, changes
\* nothing at all; transports are closed by stop and the listener is closed
\* only by that one call's coroutine.
C15_StopIdempotent ==
    /\ [][StopCalled =>
             IF srv # "none" /\ ~stopping
             THEN stopping' /\ \A c \in connections : closed'[c] # "no"
             ELSE ready' = Tail(ready) /\ UNCHANGED quiet]_vars
    /\ [][stopping => stopping']_vars
    /\ [][(\E c \in Conns : closed[c] # "close" /\ closed'[c] = "close")
              => StopCalled /\ ~stopping]_vars
    /\ [][(srv = "open" /\ srv' = "closed") =>
              \/ StopCalled /\ ~stopping
              \/ stopPc = "sleeping" /\ stopPc' = "closed"]_vars

\* C15 witness: two stop calls made by signals have run; the first is still
\* waiting for the registry to drain, the second returned.
C15_SecondStopReturned ==
    /\ nsig = 2 /\ NStops(ready) = 0
    /\ stopping /\ stopPc = "sleeping" /\ connections # {}

\* C16: the stop call that takes effect closes the transport of every
\* registered connection before anything else (their connection_lost calls
\* are queued ahead of the wake-up that the closing listener sends), and
\* the listener is closed only in a state where the registry is empty or
\* the deadline has passed.
C16_ListenerClosedLast ==
    /\ [][(StopCalled /\ srv # "none" /\ ~stopping) =>
              \A c \in connections : closed'[c] # "no"]_vars
    /\ [][(srv = "open" /\ srv' = "closed") =>
              stopping' /\ (connections' = {} \/ expired')]_vars
    /\ [](\A i, j \in DOMAIN ready :
             (/\ ready[i][1] = "startwake" /\ ready[j][1] = "lost"
              /\ closed[ready[j][2]] = "close") => j < i)

\* C16 witness: stop closed a registered connection, its connection_lost
\* emptied the registry before the deadline, and then the listener closed.
C16_ClosedAfterDrain ==
    /\ srv = "closed" /\ ~expired /\ connections = {}
    /\ \E c \in made : closed[c] = "close"

\* C17: once stop has closed the transport of a connection, the work units
\* of that connection are cancelled: none of them enters a handler method,
\* none that is inside one returns a response from it, and no response
\* frame is written on the connection.
C17_StopCancelsHandlers ==
    [][\A r \in DOMAIN reqs :
          closed[reqs[r].conn] = "close" =>
              /\ reqs'[r].inv = reqs[r].inv
              /\ reqs[r].st \in {"handling", "waking"} => reqs'[r].st # "ok"
              /\ written'[reqs[r].conn] = written[reqs[r].conn]]_vars

\* C18: while a start call is binding or serving, every later start call is
\* refused, and no listener exists beside the one _srv refers to.
C18_SecondStartRefused ==
    /\ \A i, j \in Calls :
           (i < j /\ startPc[i] \in {"binding", "serving"})
               => startPc[j] \in {"idle", "refused"}
    /\ stray = {}

\* C19: a call of update_app_state on an application that has a state is
\* accepted, leaving new_state as the stored state, iff its height is above
\* the current one or the heights and the app_hash values are equal; every
\* other call fails with an error and leaves the stored state unchanged.
C19_UpdateAcceptedIffNewer ==
    (lastCall.call = "update_app_state" /\ lastCall.before # <<>>) =>
        IF \/ lastCall.height > lastCall.before[1].block_height
           \/ /\ lastCall.height = lastCall.before[1].block_height
              /\ lastCall.hash = lastCall.before[1].app_hash
        THEN ~lastCall.err /\ app_state = <<AppState(lastCall.height, lastCall.hash)>>
        ELSE lastCall.err /\ app_state = lastCall.before

\* C20: when commit has returned, the application state has the height of
\* the latest end_block and the app_hash that commit returned, and no
\* earlier commit at that height returned another app_hash (such a commit
\* fails with a state conflict).
C20_CommitSetsState ==
    (lastCall.call = "commit" /\ ~lastCall.err) =>
        /\ block_height = <<lastCall.height>>
        /\ app_state = <<AppState(lastCall.height, lastCall.hash)>>
        /\ commits[lastCall.height] = <<lastCall.hash>>

\* C21: a deliver_tx whose tx bytes have been delivered before in the block
\* fails as a duplicate and leaves the recorded hash list, and so sum(),
\* unchanged; any other deliver_tx records the hash of its tx at the end of
\* the list; a recorded hash stays recorded until a commit.
C21_DuplicateTxRejected ==
    /\ [][lastCall'.call = "deliver_tx" =>
             IF \E i \in DOMAIN tx_hashes : tx_hashes[i] = lastCall'.hash
             THEN /\ lastCall'.err /\ tx_hashes' = tx_hashes
                  /\ hasher_sum(tx_hashes') = hasher_sum(tx_hashes)
             ELSE ~lastCall'.err /\ tx_hashes' = Append(tx_hashes, lastCall'.hash)]_vars
    /\ [][lastCall'.call # "commit" =>
             /\ Len(tx_hashes') >= Len(tx_hashes)
             /\ SubSeq(tx_hashes', 1, Len(tx_hashes)) = tx_hashes]_vars

\* C21 witness: the latest deliver_tx failed as a duplicate of the first of
\* two transactions recorded in the block.
C21_SecondDeliveryFailed ==
    /\ lastCall.call = "deliver_tx" /\ lastCall.err
    /\ Len(tx_hashes) = 2 /\ tx_hashes[1] = lastCall.hash

\* the done callbacks of the finished task r have run
CallbacksRan(r) ==
    reqs[r].st \in {"ok", "exc"} /\ \A i \in DOMAIN ready : ready[i] # <<"done", r>>

\* C22: each connection owns its task queue: the task a connection's
\* request-ordered processor runs is one of that connection's requests, a
\* request waits unstarted only behind an unfinished earlier request of its
\* own connection, and once the callbacks of a completed task have run its
\* response is held back only by an unfinished earlier request of its own
\* connection.
C22_ConnectionOwnsQueue ==
    /\ \A p \in Conns : current[p] # 0 => reqs[current[p]].conn = p
    /\ \A r \in DOMAIN reqs :
           reqs[r].st = "coro" =>
               \E q \in ReqsOf(reqs[r].conn) : q < r /\ ~Finished(q)
    /\ \A r \in DOMAIN reqs :
           CallbacksRan(r) =>
               \E q \in ReqsOf(reqs[r].conn) : q < r /\ ~Finished(q)

\* C23: once the transport of a connection has been aborted for a failed
\* handler, a request of that connection that waits in the queue is not
\* started (not by the step that aborts either), no request of the
\* connection enters a handler method, and no frame is written to the
\* transport.
C23_AbortStopsQueue ==
    [][\A r \in DOMAIN reqs :
          /\ (closed'[reqs[r].conn] = "abort" /\ reqs[r].st = "coro")
                 => reqs'[r].st = "coro"
          /\ closed[reqs[r].conn] = "abort" =>
                 /\ reqs'[r].inv = reqs[r].inv
                 /\ written'[reqs[r].conn] = written[reqs[r].conn]]_vars

\* C24: on a connection that switched to the request-ordered processor, a
\* frame that answers a request enqueued on that processor is written only
\* after the responses to all echo and flush requests that were decoded
\* before the switch (and enqueued on the response-ordered processor).
C24_SwitchKeepsOrder ==
    \A c \in Conns : \A i \in DOMAIN written[c] :
        reqs[written[c][i].req].via = "Request" =>
            \A e \in ReqsOf(c) :
                (/\ e < written[c][i].req /\ reqs[e].name \in EngineNames
                 /\ reqs[e].via = "Response") =>
                    \E j \in DOMAIN written[c] : j < i /\ written[c][j].req = e

\* request r has its frame written, or its connection is no longer open
AnsweredOrShut(r) ==
    /\ r \in DOMAIN reqs
    /\ r \in WrittenReqs(reqs[r].conn) \/ closed[reqs[r].conn] # "no"

\* C25: when the loop keeps running and the resolver and every handler
\* invocation terminate without raising, every decoded request eventually
\* has its response frame written, unless its connection does not stay open.
C25_EveryRequestAnswered ==
    \A r \in 1..MaxEvents :
        [](r \in DOMAIN reqs => <>AnsweredOrShut(r))

\* C25 witness: a request that waited in the request-ordered queue has been
\* answered on one connection, and one whose handler suspended on another.
C25_QueuedRequestAnswered ==
    \E c, d \in Conns : \E r1, r2 \in ReqsOf(c) : \E q \in ReqsOf(d) :
        /\ c # d /\ r1 < r2 /\ closed[c] = "no" /\ closed[d] = "no"
        /\ reqs[r1].via = "Request" /\ reqs[r2].via = "Request"
        /\ r2 \in WrittenReqs(c) /\ q \in WrittenReqs(d)

\* the handler of the connection's kind has no method for request r, and r
\* is neither echo nor flush
NotImplemented(r) ==
    /\ reqs[r].name \notin {"echo", "flush"}
    /\ ~HasMethod(app, kind[reqs[r].conn], reqs[r].name)

\* C26: a request that is neither echo nor flush and for which the handler
\* of its connection has no method (a request with no variant set, a request
\* of a kind the handler does not serve, any such request when there is no
\* handler) never enters a handler method and never completes with a
\* response; no frame is written for it, and once its done callback has run
\* it has failed and the transport of its connection is shut.
C26_NotImplementedAborts ==
    \A r \in DOMAIN reqs :
        NotImplemented(r) =>
            /\ ~reqs[r].inv /\ reqs[r].st \notin {"ok", "finok"}
            /\ r \notin WrittenReqs(reqs[r].conn)
            /\ Finished(r) => closed[reqs[r].conn] # "no"

\* C26 witness: a request with no variant set, on a connection without a
\* handler, and a request that classified its connection and that the
\* resolved handler does not implement have both aborted their connections.
C26_UnknownAndUnservedAborted ==
    \E r1, r2 \in DOMAIN reqs :
        /\ reqs[r1].name = "" /\ handler[reqs[r1].conn] = "None"
        /\ reqs[r1].st = "finexc" /\ closed[reqs[r1].conn] = "abort"
        /\ reqs[r2].name # "" /\ NotImplemented(r2) /\ handler[reqs[r2].conn] # "None"
        /\ reqs[r2].st = "finexc" /\ closed[reqs[r2].conn] = "abort"

\* C27: a stop call that passes its guard closes the listener at once or
\* waits; a waiting stop eventually leaves its loop, also when the registry
\* never drains, and when it leaves the loop the listener is closed.
C27_StopTerminates ==
    /\ [](stopPc = "sleeping" => <>(stopPc = "closed"))
    /\ [][(stopPc = "sleeping" /\ stopPc' = "closed") => srv' # "open"]_vars
    /\ [][(StopCalled /\ srv # "none" /\ ~stopping)
              => (stopPc' = "sleeping" \/ srv' # "open")]_vars

\* C27 witness: the listener was closed when the deadline had passed, with
\* a connection registered whose connection_lost has not been called.
C27_ClosedAtDeadline ==
    /\ srv = "closed" /\ stopPc = "closed" /\ expired
    /\ \E c \in connections :
           closed[c] = "close" /\ \E i \in DOMAIN ready : ready[i] = <<"lost", c>>

\* C28: while stop waits for the registry to drain, every registered
\* connection has had its transport closed, also one accepted after stop
\* iterated over the registry; so when the wait ends at the deadline, the
\* connections still registered are closed ones that have not reported.
C28_StopClosesLateConnections ==
    /\ [](stopPc = "sleeping" => \A c \in connections : closed[c] # "no")
    /\ [][(stopPc = "sleeping" /\ stopPc' = "closed")
              => \A c \in connections : closed[c] # "no"]_vars

\* C29: the connection_lost call that empties the registry creates a stop
\* task, and once a stop task has been created on a running server with an
\* empty registry the listener is eventually closed and start returns.
C29_LastConnectionStopsServer ==
    /\ [][(connections # {} /\ connections' = {})
              => NStops(ready') = NStops(ready) + 1]_vars
    /\ []((srv = "open" /\ connections = {} /\ NStops(ready) > 0)
              => <>(srv = "none" /\ \A i \in Calls : startPc[i] # "serving"))

\* C30: a start call made when every earlier call has returned (or failed
\* or was refused) is accepted, and on a server that was started again a
\* stop call made while no stop is waiting closes the transport of every
\* registered connection and, when the registry is empty, the listener.
C30_RestartKeepsStop ==
    /\ [][(nstart' = nstart + 1
            /\ \A i \in 1..nstart : startPc[i] \in {"returned", "failed", "refused"})
              => startPc'[nstart'] = "binding"]_vars
    /\ [][(/\ StopCalled /\ srv = "open" /\ stopPc # "sleeping"
            /\ \E i \in Calls : startPc[i] = "returned")
              => /\ \A c \in connections : closed'[c] # "no"
                 /\ connections = {} => srv' = "closed"]_vars

\* connection_lost has been called for connection c: its transport is shut
\* and the call the transport scheduled is no longer in the loop's queue
LostCalled(c) ==
    closed[c] # "no" /\ \A i \in DOMAIN ready : ready[i] # <<"lost", c>>

\* C31: the registry holds exactly the connections for which
\* connection_made has been called and connection_lost has not; a step adds
\* at most the connection just made and removes at most the one just lost.
C31_RegistryIsLiveConnections ==
    /\ [](connections = {c \in made : ~LostCalled(c)})
    /\ [][/\ connections' \ connections \subseteq made' \ made
          /\ \A c \in connections \ connections' : ~LostCalled(c) /\ LostCalled(c)']_vars

\* C31 witness: a connection aborted for a failed handler has left the
\* registry at its connection_lost while another one is registered.
C31_AbortedConnectionRemoved ==
    \E c, d \in Conns :
        /\ closed[c] = "abort" /\ LostCalled(c) /\ c \notin connections
        /\ \E r \in ReqsOf(c) : reqs[r].inv /\ reqs[r].st = "finexc"
        /\ d \in connections /\ closed[d] = "no"

\* C32: begin_block leaves a fresh block-hash accumulator, and a transaction
\* delivered first after a begin_block is never refused as a duplicate of a
\* transaction of the block that was begun before and never committed.
C32_BeginBlockStartsFresh ==
    [][/\ lastCall'.call = "begin_block" => tx_hashes' = <<>>
       /\ lastCall.call = "begin_block" /\ lastCall'.call = "deliver_tx"
              => ~lastCall'.err]_vars

\* C33: begin_block, deliver_tx and end_block of the tend.abci.ext TxKeeper
\* leave the application's state as it is, and a commit leaves it as it is
\* or makes it the keeper's working state.
C33_StateChangesOnlyInCommit ==
    [][/\ lastCall'.call \in {"begin_block", "deliver_tx", "end_block"}
              => app_state' = app_state
       /\ lastCall'.call = "commit"
              => app_state' = app_state \/ app_state' = keeper'.state]_vars

\* C33 witness: after begin_block and a delivery, end_block has set a height
\* in the working copy that the application's state does not have.
C33_WorkingCopyDiffers ==
    /\ lastCall.call = "end_block" /\ ~lastCall.err
    /\ keeper.bh # <<>> /\ keeper.bh # << <<>> >>
    /\ app_state # <<>> /\ keeper.state # <<>>
    /\ keeper.state[1].block_height = lastCall.height
    /\ app_state[1].block_height # lastCall.height

\* C34: get_connection_handler of ExtApplication returns a handler for the
\* Info, Mempool and Consensus kinds on every call.
C34_HandlerOnEveryCall ==
    \A i \in DOMAIN gets :
        gets[i].kind \in {"Info", "Mempool", "Consensus"} => gets[i].res = "handler"

\* the requests of the earlier engine that become tasks
LegacyTaskNames == {"deliver_tx", "end_block"}

LegacyIs(r, names) == r \in DOMAIN lreqs /\ lreqs[r].name \in names

\* the task of request r has completed (its callback may not have run yet)
LegacyFinished(r) == lreqs[r].st \in {"done", "failed", "answered"}

\* the response of request r has been passed to the transport
LegacyWritten(r) == \E i \in DOMAIN lwritten : lwritten[i] = r

\* the callback of the task of request r has run
LegacyAnswered(r) == r \in DOMAIN lreqs /\ lreqs[r].st = "answered"

\* every task enqueued before request r has completed
LegacyEarlierFinished(r) ==
    \A q \in 1..(r - 1) : LegacyIs(q, LegacyTaskNames) => LegacyFinished(q)

\* C35: a flush decoded while the queue has entries is parked and one decoded
\* with an empty queue is written at once; a written ResponseFlush has every
\* earlier task completed; no marker is at the head of the queue; a flush
\* whose earlier tasks have completed is eventually written.
C35_FlushParkedUntilEarlierDone ==
    /\ [](\A r \in DOMAIN lreqs :
             (lreqs[r].name = "flush" /\ LegacyWritten(r)) => LegacyEarlierFinished(r))
    /\ [](response_queue # <<>> => IsTask(response_queue[1]))
    /\ [][\A r \in DOMAIN lreqs' :
             (r \notin DOMAIN lreqs /\ lreqs'[r].name = "flush") =>
                 IF response_queue = <<>>
                 THEN lwritten' = Append(lwritten, r) /\ response_queue' = <<>>
                 ELSE lwritten' = lwritten
                      /\ response_queue' = Append(response_queue, Marker("flush", r))]_vars
    /\ \A r \in 1..MaxRequests :
           (LegacyIs(r, {"flush"}) /\ LegacyEarlierFinished(r)) ~> LegacyWritten(r)

\* C35 witness: a flush parked behind two tasks was written after both, the
\* later task having completed first.
C35_FlushWrittenAfterBoth ==
    \E i \in DOMAIN lwritten :
        /\ i >= 3 /\ lreqs[lwritten[i]].name = "flush"
        /\ lwritten[i - 1] < lwritten[i - 2] /\ lwritten[i - 2] < lwritten[i]
        /\ lreqs[lwritten[i - 1]].name \in LegacyTaskNames
        /\ lreqs[lwritten[i - 2]].name \in LegacyTaskNames

\* C36: when a ResponseEcho is written, the response of every earlier request
\* of the connection has been written (a task that failed has none).
C36_EchoAfterEarlierResponses ==
    \A i \in DOMAIN lwritten :
        lreqs[lwritten[i]].name = "echo" =>
            \A q \in 1..(lwritten[i] - 1) :
                \/ \E j \in 1..(i - 1) : lwritten[j] = q
                \/ lreqs[q].st = "failed"
                \/ lreqs[q].st = "answered" /\ ~LegacyWritten(q)

\* C37: when the handler of an end_block is called, every deliver_tx task
\* enqueued before it has completed.
C37_EndBlockAfterDeliveries ==
    [][\A r \in DOMAIN lreqs :
          (lreqs[r].name = "end_block" /\ lreqs[r].st # "running"
             /\ lreqs'[r].st = "running")
              => \A q \in 1..(r - 1) :
                     lreqs[q].name = "deliver_tx" => LegacyFinished(q)]_vars

\* C37 witness: an end_block that slept behind a delivery has its handler
\* running after the delivery was answered.
C37_EndBlockRanAfterDelivery ==
    \E q, r \in DOMAIN lreqs :
        /\ q < r /\ lreqs[q].name = "deliver_tx" /\ lreqs[r].name = "end_block"
        /\ lreqs[q].st = "answered" /\ LegacyWritten(q)
        /\ lreqs[r].st = "running"

\* C38: every end_block request is eventually passed to its handler and
\* answered.
C38_EndBlockAnswered ==
    \A r \in 1..MaxRequests :
        LegacyIs(r, {"end_block"}) ~> LegacyAnswered(r)

====
